---- MODULE Spec2Model ----
(***************************************************************************)
(* Event-sourced aggregate reduction (packages/experimental):              *)
(* the Aggregate builder (empty / withInitialState / withHandlers / build) *)
(* and the reducer's apply(tag, payload)(aggregate), under Spec; the       *)
(* EventHandlersBuilder (empty / fromHandlers / add / combine / build /    *)
(* toReducer) and makeEventReducer, under SpecBuilder; the                 *)
(* AggregateReducerBuilder (empty / handleEvent / withInitialState /       *)
(* build) and the reducer it builds, under SpecReducerBuilder; the         *)
(* Aggregate builder with addHandler, under SpecAddHandler; the            *)
(* constructors of the two builders alone, under SpecEmpty; the Aggregate  *)
(* builder combinators on builder objects, under SpecPipe; the             *)
(* AggregateReducerBuilder with a handler that returns undefined, under    *)
(* SpecFold.                                                               *)
(*                                                                         *)
(* JavaScript values are records tagged by their type in field t.          *)
(* Aggregates and the arrays held in uncommittedChanges live in heaps      *)
(* (objs, arrs) and are named by references, so that aliasing and in-place *)
(* mutation are observable.                                                *)
(***************************************************************************)
EXTENDS Integers, Sequences, FiniteSets, TLC

VARIABLES builder, reducer, objs, arrs, counter, last, origin, missing,
          handlerMaps, builders, eventReducer, called,
          handlerArrays, reducerBuilders, chains, aggregateReducer, invoked,
          added, aggregateBuilders, piped

\* the Aggregate builders as objects: the heap of builders made so far and
\* the last call of a combinator on one of them
pipeVars == <<aggregateBuilders, piped>>

\* the state of the EventHandlersBuilder module: the heap of handlers
\* objects, the heap of builders, the reducer in use and the last call
builderVars == <<handlerMaps, builders, eventReducer, called>>

\* the state of the AggregateReducerBuilder module: the heap of
\* internalHandlers arrays, the heap of builder instances, for each builder
\* the calls that made it, the reducer in use and the last call
reducerBuilderVars ==
  <<handlerArrays, reducerBuilders, chains, aggregateReducer, invoked>>

vars == <<builder, reducer, objs, arrs, counter, last, origin, missing,
          handlerMaps, builders, eventReducer, called,
          handlerArrays, reducerBuilders, chains, aggregateReducer, invoked,
          added, aggregateBuilders, piped>>

----------------------------------------------------------------------------
(* Bounds of the model *)

\* number of aggregate snapshots (heap objects) a behaviour may allocate
MaxAggregates == 3

\* largest value the counting initial-state supplier may reach
MaxCounter == 2

----------------------------------------------------------------------------
(* JavaScript values *)

Undefined == [t |-> "undefined"]

NaN == [t |-> "NaN"]

Num(n) == [t |-> "number", n |-> n]

Str(s) == [t |-> "string", s |-> s]

\* an object literal; props is a function from property name to value
Obj(props) == [t |-> "object", props |-> props]

\* o[k] on a value of the model: an own property of an object, undefined
\* for a property an object lacks and for a property of a number or string
GetProp(o, k) ==
  IF o.t = "object" /\ k \in DOMAIN o.props THEN o.props[k] ELSE Undefined

\* ToString of a value; objects here are plain literals, "[object Object]"
JsToString(v) ==
  CASE v.t = "number" -> ToString(v.n)
    [] v.t = "string" -> v.s
    [] v.t = "NaN" -> "NaN"
    [] v.t = "undefined" -> "undefined"
    [] v.t = "object" -> "[object Object]"

\* ToNumber; every string of the model contains a letter, so it is NaN
JsToNumber(v) ==
  IF v.t = "number" THEN v ELSE NaN

\* a + b: concatenation when either operand is a string or an object,
\* numeric addition otherwise
JsAdd(a, b) ==
  IF a.t \in {"string", "object"} \/ b.t \in {"string", "object"}
    THEN Str(JsToString(a) \o JsToString(b))
    ELSE IF JsToNumber(a) = NaN \/ JsToNumber(b) = NaN
           THEN NaN
           ELSE Num(a.n + b.n)

\* a - b: always numeric
JsSub(a, b) ==
  IF JsToNumber(a) = NaN \/ JsToNumber(b) = NaN
    THEN NaN
    ELSE Num(a.n - b.n)

----------------------------------------------------------------------------
(* Option *)

None == [_tag |-> "None"]

Some(v) == [_tag |-> "Some", value |-> v]

isNone(o) == o._tag = "None"

isSome(o) == o._tag = "Some"

----------------------------------------------------------------------------
(* Inputs *)

\* ids given to fresh aggregates
Ids == {"test-aggregate"}

\* tags with a handler in some registry
HandledTags == {"increment", "decrement"}

\* tags applied: the handled ones, one no registry handles, and one that
\* names a member every object literal inherits from Object.prototype
Tags == HandledTags \cup {"renamed", "toString"}

\* payload values passed to apply
Payloads == {Num(1), Num(2), Obj([value |-> Num(5)])}

\* initial-state suppliers
\*   undefined: () => undefined     (the supplier of the empty builder)
\*   zero:      () => 0
\*   counter:   () => n++  (impure: returns how often it was called before)
SupplierIds == {"undefined", "zero", "counter"}

\* the handler maps given to withHandlers
Registries ==
  { [k \in {} |-> "addPayload"],
    [increment |-> "addPayload", decrement |-> "subPayload"],
    [increment |-> "addValue", decrement |-> "subValue"] }

----------------------------------------------------------------------------
(* Handlers and suppliers *)

\* the body of a handler function, called with (state, arg)
\*   addPayload: (state, { payload }) => state + payload
\*   subPayload: (state, { payload }) => state - payload
\*   addValue:   (state, payload) => state + payload.value
\*   subValue:   (state, payload) => state - payload.value
\*   clear:      () => undefined
CallHandler(h, state, arg) ==
  CASE h = "addPayload" -> JsAdd(state, GetProp(arg, "payload"))
    [] h = "subPayload" -> JsSub(state, GetProp(arg, "payload"))
    [] h = "addValue" -> JsAdd(state, GetProp(arg, "value"))
    [] h = "subValue" -> JsSub(state, GetProp(arg, "value"))
    [] h = "clear" -> Undefined
    \* Object.prototype.toString called as a plain function (this undefined)
    [] h = "Object.prototype.toString" -> Str("[object Undefined]")

\* the value a supplier returns on its (n+1)-th invocation
CallSupplier(f, n) ==
  CASE f = "undefined" -> Undefined
    [] f = "zero" -> Num(0)
    [] f = "counter" -> Num(n)

----------------------------------------------------------------------------
(* Aggregate builder *)

\* the members of Object.prototype that the tags of the model can name;
\* a handler map is an object literal and inherits them
ObjectPrototype == {"toString"}

\* the value of a property lookup that finds nothing
NoHandler == "undefined"

\* AggregateBuilderProto / makeAggregateBuilder: an object with its own
\* getInitialState and handlers
makeAggregateBuilder(getInitialState, handlers) ==
  [getInitialState |-> getInitialState, handlers |-> handlers]

\* export const empty
empty == makeAggregateBuilder("undefined", [k \in {} |-> "addPayload"])

\* withInitialState(getInitialState)(aggregateBuilder): the new supplier and
\* the handlers of the argument
withInitialStateOf(getInitialState, aggregateBuilder) ==
  [getInitialState |-> getInitialState, handlers |-> aggregateBuilder.handlers]

\* variant: the new handlers merged into the handlers of the argument
withHandlersOf_Merge(handlers, aggregateBuilder) ==
  [getInitialState |-> aggregateBuilder.getInitialState,
   handlers |-> handlers @@ aggregateBuilder.handlers]

\* withHandlers(handlers)(aggregateBuilder): the supplier of the argument and
\* the new handlers
withHandlersOf(handlers, aggregateBuilder) ==
  [getInitialState |-> aggregateBuilder.getInitialState, handlers |-> handlers]

\* no reducer built yet
NoReducer == [built |-> FALSE]

----------------------------------------------------------------------------
(* The steps of apply *)


\* variant: the lookup keyed by the event definition object instead of its
\* tag string, handlers[String(object)]
LookupHandler_ObjectKey(handlers, tag) ==
  IF "[object Object]" \in DOMAIN handlers
    THEN handlers["[object Object]"]
    ELSE NoHandler

\* builder.handlers[tag]: an own property, else an inherited member of
\* Object.prototype, else undefined
LookupHandler(handlers, tag) ==
  IF tag \in DOMAIN handlers
    THEN handlers[tag]
    ELSE IF tag \in ObjectPrototype
           THEN "Object.prototype." \o tag
           ELSE NoHandler


\* variant: the supplier is evaluated eagerly, Option.getOrElse given its
\* value instead of a thunk
ResolveState_Eager(state, getInitialState, n) ==
  [state |-> IF isSome(state) THEN state.value
             ELSE CallSupplier(getInitialState, n),
   calls |-> 1]

\* variant: every apply starts again from the supplier's value
ResolveState_Reseed(state, getInitialState, n) ==
  [state |-> CallSupplier(getInitialState, n), calls |-> 1]

\* aggregate.state.pipe(Option.getOrElse(() => builder.getInitialState())):
\* the value of a present state; otherwise one call of the supplier, which
\* has been invoked n times before
ResolveState(state, getInitialState, n) ==
  IF isSome(state)
    THEN [state |-> state.value, calls |-> 0]
    ELSE [state |-> CallSupplier(getInitialState, n), calls |-> 1]

\* const taggedPayload = { _tag: tag, payload }
MakeTaggedPayload(tag, payload) ==
  Obj([_tag |-> Str(tag), payload |-> payload])

\* the second argument of handler(state, taggedPayload)
HandlerArgument(taggedPayload, payload) == taggedPayload


\* variant: aggregate.uncommittedChanges.push(taggedPayload), in place
SpreadAppend_Push(heap, ref, element) ==
  [heap |-> [heap EXCEPT ![ref] = Append(@, element)], ref |-> ref]

\* variant: [taggedPayload], the changes of the input dropped
SpreadAppend_Replace(heap, ref, element) ==
  [heap |-> Append(heap, <<element>>), ref |-> Len(heap) + 1]

\* variant: [taggedPayload, ...aggregate.uncommittedChanges]
SpreadAppend_Prepend(heap, ref, element) ==
  [heap |-> Append(heap, <<element>> \o heap[ref]), ref |-> Len(heap) + 1]

\* [...aggregate.uncommittedChanges, taggedPayload]: a new array in the heap
\* of arrays, holding the elements of the array at ref and then the element
SpreadAppend(heap, ref, element) ==
  [heap |-> Append(heap, Append(heap[ref], element)), ref |-> Len(heap) + 1]


\* variant: version copied from the input
ResultAggregate_SameVersion(aggregate, newState, changes) ==
  [id |-> aggregate.id,
   state |-> Some(newState),
   version |-> aggregate.version,
   uncommittedChanges |-> changes]

\* variant: state copied from the input
ResultAggregate_KeepState(aggregate, newState, changes) ==
  [id |-> aggregate.id,
   state |-> aggregate.state,
   version |-> aggregate.version + 1,
   uncommittedChanges |-> changes]

\* variant: id left out of the returned object
ResultAggregate_NoId(aggregate, newState, changes) ==
  [id |-> "undefined",
   state |-> Some(newState),
   version |-> aggregate.version + 1,
   uncommittedChanges |-> changes]

\* variant: version drawn from a sequence shared by all aggregates, here
\* the number of change arrays made so far
ResultAggregate_SharedVersion(aggregate, newState, changes) ==
  [id |-> aggregate.id,
   state |-> Some(newState),
   version |-> changes - 1,
   uncommittedChanges |-> changes]

\* the object literal apply returns
ResultAggregate(aggregate, newState, changes) ==
  [id |-> aggregate.id,
   state |-> Some(newState),
   version |-> aggregate.version + 1,
   uncommittedChanges |-> changes]

\* variant: the returned aggregate is given an id of its own that depends
\* on how many aggregates have been made so far
ReturnAggregate_Stamped(heap, input, result) ==
  [heap |-> Append(heap, [result EXCEPT
                            !.id = IF Len(heap) % 2 = 0 THEN @ ELSE "copy"]),
   ref |-> Len(heap) + 1]

\* return { ... }: a new object in the heap of aggregates; input is the
\* reference of the aggregate apply was called with
ReturnAggregate(heap, input, result) ==
  [heap |-> Append(heap, result), ref |-> Len(heap) + 1]

\* how a call with a tag that has no registered handler ended, seen from
\* outside: an error, the input state kept, or anything else
MissingOutcome(outcome, stateBefore, stateAfter) ==
  IF outcome # "ok" THEN "error"
  ELSE IF stateAfter = Some(stateBefore) THEN "pass-through"
  ELSE "other"

----------------------------------------------------------------------------
(* State machine *)

NoCall == [outcome |-> "none"]

Init ==
  /\ builder = empty
  /\ reducer = NoReducer
  /\ objs = <<>>
  /\ arrs = <<>>
  /\ counter = 0
  /\ last = NoCall
  /\ origin = <<>>
  /\ missing = {}
  /\ handlerMaps = <<>>
  /\ builders = <<>>
  /\ eventReducer = [made |-> FALSE]
  /\ called = [op |-> "none"]
  /\ handlerArrays = <<>>
  /\ reducerBuilders = <<>>
  /\ chains = <<>>
  /\ aggregateReducer = [built |-> FALSE]
  /\ invoked = [op |-> "none"]
  /\ added = [op |-> "none"]
  /\ aggregateBuilders = <<empty>>
  /\ piped = [op |-> "none"]

\* pipe(builder, withInitialState(getInitialState)); the pipeline is
\* assembled before build is called on it
withInitialState(getInitialState) ==
  /\ reducer = NoReducer
  /\ builder' = withInitialStateOf(getInitialState, builder)
  /\ UNCHANGED <<reducer, objs, arrs, counter, last, origin, missing>>
  /\ UNCHANGED <<builderVars, reducerBuilderVars, added, pipeVars>>

\* pipe(builder, withHandlers(handlers))
withHandlers(handlers) ==
  /\ reducer = NoReducer
  /\ builder' = withHandlersOf(handlers, builder)
  /\ UNCHANGED <<reducer, objs, arrs, counter, last, origin, missing>>
  /\ UNCHANGED <<builderVars, reducerBuilderVars, added, pipeVars>>

\* build(aggregateBuilder): the reducer closes over the builder; the
\* compatibility check is a type and does nothing at run time
build ==
  /\ reducer = NoReducer
  /\ reducer' = builder
  /\ UNCHANGED <<builder, objs, arrs, counter, last, origin, missing>>
  /\ UNCHANGED <<builderVars, reducerBuilderVars, added, pipeVars>>

\* a caller writes down a fresh aggregate: version 0, no state, no changes
Materialize(id) ==
  /\ Len(objs) < MaxAggregates
  /\ arrs' = Append(arrs, <<>>)
  /\ objs' = Append(objs, [id |-> id, state |-> None, version |-> 0,
                          uncommittedChanges |-> Len(arrs) + 1])
  /\ origin' = Append(origin, [parent |-> 0])
  /\ UNCHANGED <<builder, reducer, counter, last, missing>>
  /\ UNCHANGED <<builderVars, reducerBuilderVars, added, pipeVars>>

\* reducer.apply(tag, payload)(objs[r])
apply(tag, payload, r) ==
  /\ reducer # NoReducer
  /\ r \in 1..Len(objs)
  /\ LET aggregate == objs[r]
         handler == LookupHandler(reducer.handlers, tag)
         res == ResolveState(aggregate.state, reducer.getInitialState, counter)
         taggedPayload == MakeTaggedPayload(tag, payload)
         arg == HandlerArgument(taggedPayload, payload)
         registered == tag \in DOMAIN reducer.handlers
         call == [tag |-> tag, payload |-> payload, input |-> r,
                  before |-> aggregate,
                  changesBefore |-> arrs[aggregate.uncommittedChanges],
                  registered |-> registered,
                  handlerState |-> res.state, handlerArg |-> arg,
                  supplierCalls |-> res.calls, counterBefore |-> counter]
         counts == IF reducer.getInitialState = "counter"
                     THEN res.calls ELSE 0
     IN /\ counter + counts <= MaxCounter
        /\ counter' = counter + counts
        /\ IF handler = NoHandler
             THEN \* handler is not a function: the call throws
                  /\ last' = call @@ [outcome |-> "TypeError", output |-> 0]
                  /\ missing' = IF registered THEN missing
                                ELSE missing \cup
                                  {MissingOutcome("TypeError", res.state, None)}
                  /\ UNCHANGED <<objs, arrs, origin>>
             ELSE /\ Len(objs) < MaxAggregates
                  /\ LET newState == CallHandler(handler, res.state, arg)
                         changes == SpreadAppend(arrs,
                                      aggregate.uncommittedChanges,
                                      taggedPayload)
                         result == ResultAggregate(aggregate, newState,
                                                   changes.ref)
                         returned == ReturnAggregate(objs, r, result)
                     IN /\ arrs' = changes.heap
                        /\ objs' = returned.heap
                        /\ origin' =
                             IF returned.ref = Len(objs) + 1
                               THEN Append(origin, [parent |-> r])
                               ELSE origin
                        /\ last' = call @@ [outcome |-> "ok",
                                            output |-> returned.ref]
                        /\ missing' = IF registered THEN missing
                                      ELSE missing \cup
                                        {MissingOutcome("ok", res.state,
                                                        result.state)}
  /\ UNCHANGED <<builder, reducer>>
  /\ UNCHANGED <<builderVars, reducerBuilderVars, added, pipeVars>>

Next ==
  \/ \E f \in SupplierIds : withInitialState(f)
  \/ \E h \in Registries : withHandlers(h)
  \/ build
  \/ \E id \in Ids : Materialize(id)
  \/ \E tag \in Tags, payload \in Payloads, r \in 1..MaxAggregates :
       apply(tag, payload, r)

Spec == Init /\ [][Next]_vars

TypeOK ==
  /\ builder \in [getInitialState : SupplierIds, handlers : Registries]
  /\ Len(objs) <= MaxAggregates
  /\ Len(origin) = Len(objs)
  /\ counter \in 0..MaxCounter

----------------------------------------------------------------------------
(* Vocabulary of the properties *)

\* the last call of apply returned an aggregate
Applied == last.outcome = "ok"

\* the aggregate the last call returned
Output == objs[last.output]

\* the uncommittedChanges array of an aggregate, read through the heap
ChangesOf(aggregate) == arrs[aggregate.uncommittedChanges]

\* the aggregates that some apply returned
Returned == {o \in 1..Len(objs) : origin[o].parent # 0}

\* the tag of a stored event
TagOf(event) == event.props._tag.s

\* left fold of the registered handlers over a sequence of events
RECURSIVE FoldHandlers(_, _, _)
FoldHandlers(handlers, state, events) ==
  IF events = <<>>
    THEN state
    ELSE FoldHandlers(handlers,
                      CallHandler(handlers[TagOf(Head(events))], state,
                                  Head(events)),
                      Tail(events))

\* the first apply on the path from a fresh aggregate to o
RECURSIVE RootOf(_)
RootOf(o) == IF origin[o].parent = 0 THEN o ELSE RootOf(origin[o].parent)

----------------------------------------------------------------------------
(* Properties *)

\* C1: an apply of an event whose tag has a registered handler returns an
\* aggregate whose version is the input's version plus one; along every
\* chain of applies each aggregate's version is its parent's plus one, so it
\* never decreases and never skips a value.
C1_VersionIncrement ==
  /\ (Applied /\ last.registered) =>
       Output.version = last.before.version + 1
  /\ \A o \in Returned :
       objs[o].version = objs[origin[o].parent].version + 1

C1_Witness ==
  /\ Applied /\ last.registered
  /\ last.before.version = 1
  /\ Output.version = 2

\* C2: the uncommittedChanges of the returned aggregate are the input's
\* uncommittedChanges followed by exactly the tagged payload of the applied
\* event; earlier entries keep their place and nothing is removed.
C2_AppendOnly ==
  /\ Applied =>
       ChangesOf(Output) =
         Append(last.changesBefore,
                Obj([_tag |-> Str(last.tag), payload |-> last.payload]))
  /\ \A o \in Returned :
       LET old == ChangesOf(objs[origin[o].parent])
           new == ChangesOf(objs[o])
       IN /\ Len(new) = Len(old) + 1
          /\ SubSeq(new, 1, Len(old)) = old

C2_Witness ==
  /\ Applied
  /\ Len(last.changesBefore) = 1
  /\ Len(ChangesOf(Output)) = 2
  /\ ChangesOf(Output)[1] # ChangesOf(Output)[2]

\* C3: apply leaves its input as it was: after the call the input aggregate
\* and the array it holds equal their values before the call, and the
\* returned aggregate is a new object holding a new array.
C3_InputUntouched ==
  last.outcome # "none" =>
    /\ objs[last.input] = last.before
    /\ arrs[last.before.uncommittedChanges] = last.changesBefore
    /\ Applied =>
         /\ last.output # last.input
         /\ Output.uncommittedChanges # last.before.uncommittedChanges

C3_Witness ==
  /\ Applied
  /\ Len(last.changesBefore) = 1
  /\ Len(arrs[last.before.uncommittedChanges]) = 1
  /\ Len(ChangesOf(Output)) = 2

\* C4: an aggregate reached from a fresh one by applying events with
\* registered tags has a present state, equal to the left fold of the
\* registered handlers over its events, starting from a value the
\* initial-state supplier returns.
C4_LeftFold ==
  \A o \in Returned :
    (/\ reducer # NoReducer
     /\ \A i \in 1..Len(ChangesOf(objs[o])) :
          TagOf(ChangesOf(objs[o])[i]) \in DOMAIN reducer.handlers)
    => \E n \in 0..MaxCounter :
         objs[o].state =
           Some(FoldHandlers(reducer.handlers,
                             CallSupplier(reducer.getInitialState, n),
                             ChangesOf(objs[o])))

\* Increment(2) then Decrement(1) from 0: states 2 then 1, versions 1 then 2
C4_Witness ==
  /\ reducer # NoReducer
  /\ reducer.getInitialState = "zero"
  /\ \E o \in Returned :
       /\ origin[o].parent \in Returned
       /\ ChangesOf(objs[o]) =
            << Obj([_tag |-> Str("increment"), payload |-> Num(2)]),
               Obj([_tag |-> Str("decrement"), payload |-> Num(1)]) >>
       /\ objs[origin[o].parent].state = Some(Num(2))
       /\ objs[origin[o].parent].version = 1
       /\ objs[o].state = Some(Num(1))
       /\ objs[o].version = 2

\* C5: apply treats every tag without a registered handler the same way:
\* either it always passes the state through, or it always fails (any error
\* raised by apply is counted as the strict policy here).
C5_OnePolicy ==
  \/ missing \subseteq {"pass-through"}
  \/ missing \subseteq {"error"}

\* C6: the handler registered for the tag is called with the state and the
\* raw payload given to apply, so the returned state is the handler's result
\* on (state, payload).
C6_HandlerGetsPayload ==
  (Applied /\ last.registered) =>
    Output.state =
      Some(CallHandler(reducer.handlers[last.tag], last.handlerState,
                       last.payload))

\* C7: the state handed to the handler is the aggregate's state when it is
\* present and otherwise the supplier's value; the supplier runs once per
\* apply on an absent state and not at all on a present one, and a value it
\* returned earlier is never reused.
C7_StateResolution ==
  last.outcome # "none" =>
    /\ last.handlerState =
         IF isSome(last.before.state)
           THEN last.before.state.value
           ELSE CallSupplier(reducer.getInitialState, last.counterBefore)
    /\ last.supplierCalls = IF isSome(last.before.state) THEN 0 ELSE 1
    /\ reducer.getInitialState = "counter" =>
         counter = last.counterBefore +
                     (IF isSome(last.before.state) THEN 0 ELSE 1)
    /\ (Applied /\ last.registered) =>
         Output.state =
           Some(CallHandler(reducer.handlers[last.tag],
                  IF isSome(last.before.state)
                    THEN last.before.state.value
                    ELSE CallSupplier(reducer.getInitialState,
                                      last.counterBefore),
                  last.handlerArg))

\* the counting supplier is called a second time for a second apply on an
\* absent state, and the second value is used
C7_Witness ==
  /\ Applied /\ last.registered
  /\ reducer.getInitialState = "counter"
  /\ isNone(last.before.state)
  /\ last.counterBefore = 1
  /\ counter = 2
  /\ last.handlerState = Num(1)

\* C8: every aggregate an apply returns has a present state; an aggregate
\* has an absent state only if it is a fresh one, to which no event has been
\* applied.
C8_StatePresent ==
  /\ Applied => isSome(Output.state)
  /\ \A o \in 1..Len(objs) :
       isNone(objs[o].state) =>
         /\ origin[o].parent = 0
         /\ objs[o].version = 0
         /\ ChangesOf(objs[o]) = <<>>

\* a handler result that is not a number is still wrapped as present
C8_Witness ==
  /\ Applied
  /\ isNone(last.before.state)
  /\ Output.state = Some(NaN)

\* C9: apply keeps the id: the returned aggregate has the id of the input,
\* and every aggregate has the id of the fresh aggregate it descends from.
C9_IdUnchanged ==
  /\ Applied => Output.id = last.before.id
  /\ \A o \in 1..Len(objs) : objs[o].id = objs[RootOf(o)].id

C9_Witness ==
  /\ Applied
  /\ Output.version = 2
  /\ Output.id = "test-aggregate"
  /\ objs[RootOf(last.output)].id = "test-aggregate"

\* C10: apply of an event whose tag has a registered handler returns a new
\* aggregate and raises no error.
C10_RegisteredNeverFails ==
  (last.outcome # "none" /\ last.registered) =>
    /\ last.outcome = "ok"
    /\ last.output \in 1..Len(objs)
    /\ last.output # last.input

C10_Witness ==
  /\ Applied /\ last.registered
  /\ isSome(last.before.state)
  /\ last.tag = "decrement"

----------------------------------------------------------------------------
(* Compatibility of the supplier with the handlers *)

\* the type of the values a supplier returns
SupplierStateType(f) ==
  IF f = "undefined" THEN "undefined" ELSE "number"

\* the type of the state the registered handlers take: every handler of the
\* model is declared on (state: number, ...)
HandlersStateType(handlers) == "number"

\* EnsureStateAndHandlersAreCompatible: the supplier's state type is the
\* state type of the handlers (a builder without handlers constrains nothing)
StateAndHandlersAreCompatible(aggregateBuilder) ==
  DOMAIN aggregateBuilder.handlers # {} =>
    SupplierStateType(aggregateBuilder.getInitialState) =
      HandlersStateType(aggregateBuilder.handlers)

\* C11: build refuses a builder whose supplier produces a state of another
\* type than its handlers consume, so a reducer only ever exists for a
\* compatible builder.
C11_BuildRejectsIncompatible ==
  reducer # NoReducer => StateAndHandlersAreCompatible(reducer)

----------------------------------------------------------------------------
(* EventHandlersBuilder and makeEventReducer: bounds and inputs *)

\* number of builders a behaviour may create
MaxBuilders == 3

\* the event definitions handlers are added for
EventDefinitions == {[tag |-> "increment"], [tag |-> "decrement"]}

\* the handlers given to add; they take the payload itself
AddedHandlers == {"addValue", "subValue"}

\* the handlers objects given to fromHandlers, each with one entry; the
\* entries take the event
GivenHandlers ==
  {[increment |-> "addPayload"], [decrement |-> "subPayload"]}

\* the states a reducer is called with
ReducerStates == {Num(0), Num(3)}

\* buildEvent(event, payload): the events a reducer is called with
Events == {MakeTaggedPayload(tag, payload) : tag \in Tags, payload \in Payloads}

----------------------------------------------------------------------------
(* Entries of a handlers object *)

\* variant: add stores the handler itself
AddedEntry_Unwrapped(handler) == [kind |-> "direct", handler |-> handler]

\* the arrow function add stores:
\* (state, taggedPayload) => handler(state, taggedPayload.payload)
AddedEntry(handler) == [kind |-> "added", handler |-> handler]

\* a function stored as it was given: (state, event) => ...
DirectEntry(handler) == [kind |-> "direct", handler |-> handler]

\* what handlers[tag] gives when there is no such property
NoEntry == [kind |-> "undefined"]

\* entry(state, taggedPayload)
CallEntry(entry, state, taggedPayload) ==
  IF entry.kind = "added"
    THEN CallHandler(entry.handler, state, GetProp(taggedPayload, "payload"))
    ELSE CallHandler(entry.handler, state, taggedPayload)

\* variant: empty starts from a handlers object that has an entry
EmptyHandlers_Default == [increment |-> DirectEntry("addPayload")]

\* {}
EmptyHandlers == [k \in {} |-> NoEntry]

\* variant: { [event.tag]: entry, ...self.handlers }
AddHandlers_KeepFirst(selfHandlers, tag, entry) ==
  [k \in DOMAIN selfHandlers \cup {tag} |->
     IF k \in DOMAIN selfHandlers THEN selfHandlers[k] ELSE entry]

\* variant: { [event.tag]: entry }, the receiver's handlers not spread
AddHandlers_Latest(selfHandlers, tag, entry) ==
  [k \in {tag} |-> entry]

\* { ...self.handlers, [event.tag]: entry }
AddHandlers(selfHandlers, tag, entry) ==
  [k \in DOMAIN selfHandlers \cup {tag} |->
     IF k = tag THEN entry ELSE selfHandlers[k]]

\* variant: { ...that.handlers, ...self.handlers }
CombineHandlers_SelfWins(selfHandlers, thatHandlers) ==
  [k \in DOMAIN selfHandlers \cup DOMAIN thatHandlers |->
     IF k \in DOMAIN selfHandlers THEN selfHandlers[k] ELSE thatHandlers[k]]

\* variant: that's handlers written over the tags self has, the other tags
\* of that left out
CombineHandlers_SelfTags(selfHandlers, thatHandlers) ==
  [k \in DOMAIN selfHandlers |->
     IF k \in DOMAIN thatHandlers THEN thatHandlers[k] ELSE selfHandlers[k]]

\* variant: { ...that.handlers }
CombineHandlers_OnlyThat(selfHandlers, thatHandlers) == thatHandlers

\* { ...self.handlers, ...that.handlers }
CombineHandlers(selfHandlers, thatHandlers) ==
  [k \in DOMAIN selfHandlers \cup DOMAIN thatHandlers |->
     IF k \in DOMAIN thatHandlers THEN thatHandlers[k] ELSE selfHandlers[k]]

\* variant: Object.assign(self.handlers, ...), the receiver's object reused
NewHandlersObject_Assign(heap, self, handlers) ==
  [heap |-> [heap EXCEPT ![self] = handlers], ref |-> self]

\* the object literal assigned to op.handlers is a new object in the heap
\* of handlers objects; self is the reference of the receiver's handlers
NewHandlersObject(heap, self, handlers) ==
  [heap |-> Append(heap, handlers), ref |-> Len(heap) + 1]

\* Object.create(proto) with op.handlers set: a new builder in the heap of
\* builders
NewBuilder(heap, handlersRef) ==
  [heap |-> Append(heap, [handlers |-> handlersRef]), ref |-> Len(heap) + 1]

\* variant: build returns a copy, { ...self.handlers }
BuildOf_Copy(heap, self) ==
  [heap |-> Append(heap, heap[self.handlers]), ref |-> Len(heap) + 1]

\* build(self): self.handlers, the object itself
BuildOf(heap, self) ==
  [heap |-> heap, ref |-> self.handlers]

----------------------------------------------------------------------------
(* makeEventReducer *)

\* no reducer made yet
NoEventReducer == [made |-> FALSE]

\* variant: the tag read from event.tag
EventTag_TagField(event) == JsToString(GetProp(event, "tag"))

\* const tag = event._tag, used as a property key
EventTag(event) == JsToString(GetProp(event, "_tag"))

\* handlers[tag]: an own property, else an inherited member of
\* Object.prototype, else undefined
LookupEntry(handlers, tag) ==
  IF tag \in DOMAIN handlers
    THEN handlers[tag]
    ELSE IF tag \in ObjectPrototype
           THEN DirectEntry("Object.prototype." \o tag)
           ELSE NoEntry

\* makeEventReducer(handlers): the closure keeps the handlers object
makeEventReducerOf(handlersRef) ==
  [made |-> TRUE, handlers |-> handlersRef]

\* the closure called with (state, event) on the handlers object it keeps:
\* handler(state, event), a TypeError when handler is undefined
EventReducerCall(handlers, state, event) ==
  LET handler == LookupEntry(handlers, EventTag(event))
  IN IF handler = NoEntry
       THEN [outcome |-> "TypeError", value |-> Undefined]
       ELSE [outcome |-> "ok", value |-> CallEntry(handler, state, event)]

\* variant: the reducer is made once, from the first handlers object, and
\* reused
toReducerOf_Memoised(self) == makeEventReducerOf(1)

\* toReducer(self): makeEventReducer(self.handlers)
toReducerOf(self) == makeEventReducerOf(self.handlers)

\* variant: toReducer refuses a builder without handlers
toReducerOutcome_NonEmpty(handlers) ==
  IF DOMAIN handlers = {} THEN "Error" ELSE "ok"

\* toReducer has no failing path
toReducerOutcome(handlers) == "ok"

----------------------------------------------------------------------------
(* State machine of the EventHandlersBuilder module *)

\* the state of the Aggregate module
aggregateVars ==
  <<builder, reducer, objs, arrs, counter, last, origin, missing, added,
    aggregateBuilders, piped>>

\* what every record of a call holds: the heaps as they were before it
Before == [mapsBefore |-> handlerMaps, buildersBefore |-> builders]

\* empty(): a builder on a new, empty handlers object
Builder_empty ==
  /\ Len(builders) < MaxBuilders
  /\ LET created == NewBuilder(builders, Len(handlerMaps) + 1)
     IN /\ handlerMaps' = Append(handlerMaps, EmptyHandlers)
        /\ builders' = created.heap
        /\ called' = Before @@ [op |-> "empty", outcome |-> "ok",
                                result |-> created.ref]
  /\ UNCHANGED <<eventReducer, aggregateVars, reducerBuilderVars>>

\* fromHandlers(handlers): a builder on the caller's handlers object
Builder_fromHandlers(given) ==
  /\ Len(builders) < MaxBuilders
  /\ LET created == NewBuilder(builders, Len(handlerMaps) + 1)
     IN /\ handlerMaps' =
             Append(handlerMaps,
                    [k \in DOMAIN given |-> DirectEntry(given[k])])
        /\ builders' = created.heap
        /\ called' = Before @@ [op |-> "fromHandlers", outcome |-> "ok",
                                result |-> created.ref]
  /\ UNCHANGED <<eventReducer, aggregateVars, reducerBuilderVars>>

\* add(event, handler)(builders[self])
Builder_add(event, handler, self) ==
  /\ Len(builders) < MaxBuilders
  /\ self \in 1..Len(builders)
  /\ LET selfRef == builders[self].handlers
         merged == AddHandlers(handlerMaps[selfRef], event.tag,
                               AddedEntry(handler))
         object == NewHandlersObject(handlerMaps, selfRef, merged)
         created == NewBuilder(builders, object.ref)
     IN /\ handlerMaps' = object.heap
        /\ builders' = created.heap
        /\ called' = Before @@ [op |-> "add", outcome |-> "ok",
                                self |-> self, tag |-> event.tag,
                                handler |-> handler,
                                result |-> created.ref]
  /\ UNCHANGED <<eventReducer, aggregateVars, reducerBuilderVars>>

\* combine(builders[that])(builders[self])
Builder_combine(that, self) ==
  /\ Len(builders) < MaxBuilders
  /\ self \in 1..Len(builders)
  /\ that \in 1..Len(builders)
  /\ LET selfRef == builders[self].handlers
         merged == CombineHandlers(handlerMaps[selfRef],
                                   handlerMaps[builders[that].handlers])
         object == NewHandlersObject(handlerMaps, selfRef, merged)
         created == NewBuilder(builders, object.ref)
     IN /\ handlerMaps' = object.heap
        /\ builders' = created.heap
        /\ called' = Before @@ [op |-> "combine", outcome |-> "ok",
                                self |-> self, that |-> that,
                                result |-> created.ref]
  /\ UNCHANGED <<eventReducer, aggregateVars, reducerBuilderVars>>

\* build(builders[self])
Builder_build(self) ==
  /\ self \in 1..Len(builders)
  /\ LET built == BuildOf(handlerMaps, builders[self])
     IN /\ handlerMaps' = built.heap
        /\ called' = Before @@ [op |-> "build", outcome |-> "ok",
                                self |-> self, result |-> built.ref]
  /\ UNCHANGED <<builders, eventReducer, aggregateVars, reducerBuilderVars>>

\* toReducer(builders[self])
Builder_toReducer(self) ==
  /\ self \in 1..Len(builders)
  /\ LET outcome == toReducerOutcome(handlerMaps[builders[self].handlers])
     IN /\ eventReducer' = IF outcome = "ok"
                             THEN toReducerOf(builders[self])
                             ELSE eventReducer
        /\ called' = Before @@ [op |-> "toReducer", outcome |-> outcome,
                                self |-> self]
  /\ UNCHANGED <<handlerMaps, builders, aggregateVars, reducerBuilderVars>>

\* makeEventReducer(handlerMaps[ref]), on a handlers object that build
\* returned or a builder holds
makeEventReducer(ref) ==
  /\ ref \in 1..Len(handlerMaps)
  /\ eventReducer' = makeEventReducerOf(ref)
  /\ called' = Before @@ [op |-> "makeEventReducer", outcome |-> "ok",
                          handlers |-> ref]
  /\ UNCHANGED <<handlerMaps, builders, aggregateVars, reducerBuilderVars>>

\* the reducer in use called with (state, event)
EventReducer(state, event) ==
  /\ eventReducer # NoEventReducer
  /\ LET handlers == handlerMaps[eventReducer.handlers]
         returned == EventReducerCall(handlers, state, event)
     IN called' = Before @@ [op |-> "reduce", outcome |-> returned.outcome,
                             value |-> returned.value,
                             state |-> state, event |-> event,
                             handlers |-> eventReducer.handlers]
  /\ UNCHANGED <<handlerMaps, builders, eventReducer, aggregateVars, reducerBuilderVars>>

NextBuilder ==
  \/ Builder_empty
  \/ \E given \in GivenHandlers : Builder_fromHandlers(given)
  \/ \E event \in EventDefinitions, handler \in AddedHandlers,
        self \in 1..MaxBuilders : Builder_add(event, handler, self)
  \/ \E that \in 1..MaxBuilders, self \in 1..MaxBuilders :
       Builder_combine(that, self)
  \/ \E self \in 1..MaxBuilders : Builder_build(self)
  \/ \E self \in 1..MaxBuilders : Builder_toReducer(self)
  \/ \E ref \in 1..MaxBuilders : makeEventReducer(ref)
  \/ \E state \in ReducerStates, event \in Events : EventReducer(state, event)

SpecBuilder == Init /\ [][NextBuilder]_vars

BuilderTypeOK ==
  /\ Len(builders) <= MaxBuilders
  /\ \A b \in 1..Len(builders) :
       builders[b].handlers \in 1..Len(handlerMaps)
  /\ eventReducer # NoEventReducer =>
       eventReducer.handlers \in 1..Len(handlerMaps)

----------------------------------------------------------------------------
(* Vocabulary of the EventHandlersBuilder claims *)

\* the handlers object of builder b in the heaps (maps, bs)
HandlersOf(maps, bs, b) == maps[bs[b].handlers]

\* the receiver's handlers as they were when the last call began
SelfBefore == HandlersOf(called.mapsBefore, called.buildersBefore, called.self)

\* the argument builder's handlers as they were when the last call began
ThatBefore == HandlersOf(called.mapsBefore, called.buildersBefore, called.that)

\* the handlers of the builder the last call returned
ResultHandlers == HandlersOf(handlerMaps, builders, called.result)

----------------------------------------------------------------------------
(* C12 *)

\* C12: add is last-write-wins. After add(E, h)(self) the returned
\* builder's handlers have an entry for exactly the receiver's tags and
\* E.tag, the entry under E.tag is the one made from h whatever the receiver
\* held there, and every other tag keeps the receiver's entry.
C12_AddLastWriteWins ==
  called.op = "add" =>
    /\ DOMAIN ResultHandlers = DOMAIN SelfBefore \cup {called.tag}
    /\ ResultHandlers[called.tag] = AddedEntry(called.handler)
    /\ \A k \in DOMAIN SelfBefore \ {called.tag} :
         ResultHandlers[k] = SelfBefore[k]

\* add(E, h2) on a builder that add(E, h1) returned, h1 # h2, next to
\* another tag
C12_Witness ==
  /\ called.op = "add"
  /\ called.tag \in DOMAIN SelfBefore
  /\ SelfBefore[called.tag].kind = "added"
  /\ SelfBefore[called.tag] # AddedEntry(called.handler)
  /\ ResultHandlers[called.tag] = AddedEntry(called.handler)
  /\ DOMAIN SelfBefore # {called.tag}

----------------------------------------------------------------------------
(* C13 *)

\* C13: combine(that)(self) resolves collisions in favour of that. Every
\* tag registered in both builders has, in the returned builder, the entry
\* of that.
C13_CombineArgumentWins ==
  called.op = "combine" =>
    \A k \in DOMAIN SelfBefore \cap DOMAIN ThatBefore :
      ResultHandlers[k] = ThatBefore[k]

\* a combine of two builders that hold different entries for one tag
C13_Witness ==
  /\ called.op = "combine"
  /\ \E k \in DOMAIN SelfBefore \cap DOMAIN ThatBefore :
       /\ SelfBefore[k] # ThatBefore[k]
       /\ ResultHandlers[k] = ThatBefore[k]

----------------------------------------------------------------------------
(* C14 *)

\* C14: the handlers of combine(that)(self) have an entry for exactly the
\* tags of self and of that, and a tag only one of them registers keeps
\* that builder's entry.
C14_CombineUnion ==
  called.op = "combine" =>
    /\ DOMAIN ResultHandlers = DOMAIN SelfBefore \cup DOMAIN ThatBefore
    /\ \A k \in DOMAIN SelfBefore \ DOMAIN ThatBefore :
         ResultHandlers[k] = SelfBefore[k]
    /\ \A k \in DOMAIN ThatBefore \ DOMAIN SelfBefore :
         ResultHandlers[k] = ThatBefore[k]

\* a combine where self has a tag that lacks and that has a tag self lacks
C14_Witness ==
  /\ called.op = "combine"
  /\ DOMAIN SelfBefore \ DOMAIN ThatBefore # {}
  /\ DOMAIN ThatBefore \ DOMAIN SelfBefore # {}
  /\ DOMAIN ResultHandlers = DOMAIN SelfBefore \cup DOMAIN ThatBefore

----------------------------------------------------------------------------
(* C15 *)

\* C15: add and combine never mutate an existing registry. After either
\* call every handlers object that existed before it (those of self and
\* that, and so every object build returned from them) holds the entries it
\* held, and every existing builder holds the object it held.
C15_NoMutation ==
  called.op \in {"add", "combine"} =>
    /\ \A r \in 1..Len(called.mapsBefore) :
         handlerMaps[r] = called.mapsBefore[r]
    /\ \A b \in 1..Len(called.buildersBefore) :
         builders[b] = called.buildersBefore[b]

\* an add or combine whose result differs from the receiver's handlers,
\* while a reducer made from the receiver's handlers is in use
C15_Witness ==
  /\ called.op \in {"add", "combine"}
  /\ ResultHandlers # SelfBefore
  /\ HandlersOf(handlerMaps, builders, called.self) = SelfBefore
  /\ eventReducer # NoEventReducer
  /\ eventReducer.handlers = called.buildersBefore[called.self].handlers

----------------------------------------------------------------------------
(* C16 *)

\* length of the event sequences folded
MaxEvents == 2

\* the events whose tag has an entry of its own in handlers
RegisteredEvents(handlers) == {e \in Events : TagOf(e) \in DOMAIN handlers}

\* the sequences of at most MaxEvents events of a set
EventSeqs(events) == UNION {[1..n -> events] : n \in 0..MaxEvents}

\* Array.Foldable.reduce(events, state, reducer) for the reducer that keeps
\* handlers
RECURSIVE ReduceEvents(_, _, _)
ReduceEvents(handlers, state, events) ==
  IF events = <<>>
    THEN state
    ELSE ReduceEvents(handlers,
                      EventReducerCall(handlers, state, Head(events)).value,
                      Tail(events))

\* C16: after toReducer(b), folding any sequence of events with registered
\* tags from any initial state with the reducer it returned gives the final
\* state that folding with makeEventReducer(build(b)) gives.
C16_ToReducerIsBuildThenReducer ==
  called.op = "toReducer" =>
    LET viaBuild ==
          makeEventReducerOf(BuildOf(handlerMaps, builders[called.self]).ref)
    IN \A state \in ReducerStates :
         \A events \in EventSeqs(RegisteredEvents(SelfBefore)) :
           ReduceEvents(handlerMaps[eventReducer.handlers], state, events)
             = ReduceEvents(handlerMaps[viaBuild.handlers], state, events)

\* toReducer on a builder other than the first that registers two tags,
\* with a sequence of MaxEvents events that changes the state
C16_Witness ==
  /\ called.op = "toReducer"
  /\ called.self # 1
  /\ Cardinality(DOMAIN SelfBefore) = 2
  /\ \E state \in ReducerStates :
       \E events \in EventSeqs(RegisteredEvents(SelfBefore)) :
         /\ Len(events) = MaxEvents
         /\ TagOf(events[1]) # TagOf(events[2])
         /\ ReduceEvents(handlerMaps[eventReducer.handlers], state, events).t
              = "number"
         /\ ReduceEvents(handlerMaps[eventReducer.handlers], state, events)
              # state

----------------------------------------------------------------------------
(* C17 *)

\* C17: the reducer of makeEventReducer(handlers), called with a state and
\* an event whose tag has an entry in handlers, returns what the entry
\* stored under exactly that tag returns for (state, event), and does not
\* fail.
C17_ExactTagDispatch ==
  (called.op = "reduce"
     /\ TagOf(called.event) \in DOMAIN called.mapsBefore[called.handlers]) =>
    /\ called.outcome = "ok"
    /\ called.value =
         CallEntry(called.mapsBefore[called.handlers][TagOf(called.event)],
                   called.state, called.event)

\* a call with a registered tag on handlers that hold different entries
\* for two tags, the result differing from what the other entry returns
C17_Witness ==
  /\ called.op = "reduce"
  /\ TagOf(called.event) \in DOMAIN handlerMaps[called.handlers]
  /\ called.outcome = "ok"
  /\ \E other \in DOMAIN handlerMaps[called.handlers] :
       /\ other # TagOf(called.event)
       /\ CallEntry(handlerMaps[called.handlers][other], called.state,
                    called.event) # called.value

----------------------------------------------------------------------------
(* C18 *)

\* C18: build(b) returns the handlers object b holds, with the entries it
\* held before the call, nothing added or removed, and succeeds for every
\* builder.
C18_BuildReturnsRegistry ==
  called.op = "build" =>
    /\ called.outcome = "ok"
    /\ called.result = builders[called.self].handlers
    /\ handlerMaps[called.result] = SelfBefore
    /\ handlerMaps = called.mapsBefore

\* build of a builder that holds a given entry next to an added one
C18_Witness ==
  /\ called.op = "build"
  /\ called.outcome = "ok"
  /\ \E k1 \in DOMAIN SelfBefore, k2 \in DOMAIN SelfBefore :
       SelfBefore[k1].kind = "direct" /\ SelfBefore[k2].kind = "added"
  /\ handlerMaps[called.result] = SelfBefore

----------------------------------------------------------------------------
(* C19 *)

\* C19: the entry add(E, h) stores under E.tag, called with
\* (state, taggedPayload), returns h(state, taggedPayload.payload).
C19_AddedEntryUnwrapsPayload ==
  called.op = "add" =>
    \A state \in ReducerStates, taggedPayload \in Events :
      CallEntry(ResultHandlers[called.tag], state, taggedPayload)
        = CallHandler(called.handler, state,
                      GetProp(taggedPayload, "payload"))

\* an add whose entry, given an event that carries { value: 5 }, returns a
\* number other than the state
C19_Witness ==
  /\ called.op = "add"
  /\ \E state \in ReducerStates :
       LET returned ==
             CallEntry(ResultHandlers[called.tag], state,
                       MakeTaggedPayload(called.tag, Obj([value |-> Num(5)])))
       IN returned.t = "number" /\ returned # state

----------------------------------------------------------------------------
(* C20 *)

\* C20: empty, add, combine, build and toReducer never fail. Each call
\* raises no error and returns a value: a builder, a handlers object or a
\* reducer; toReducer on a builder without handlers included.
C20_BuilderOperationsTotal ==
  /\ called.op \in {"empty", "add", "combine", "build", "toReducer"} =>
       called.outcome = "ok"
  /\ called.op \in {"empty", "add", "combine"} =>
       called.result \in 1..Len(builders)
  /\ called.op = "build" => called.result \in 1..Len(handlerMaps)
  /\ called.op = "toReducer" =>
       /\ eventReducer # NoEventReducer
       /\ eventReducer.handlers \in 1..Len(handlerMaps)

\* toReducer on a builder whose handlers object is empty
C20_Witness ==
  /\ called.op = "toReducer"
  /\ DOMAIN SelfBefore = {}
  /\ called.outcome = "ok"
  /\ eventReducer # NoEventReducer
  /\ handlerMaps[eventReducer.handlers] = EmptyHandlers

----------------------------------------------------------------------------
(* C21 *)

\* C21: the order of two adds for distinct tags does not matter. After
\* add(E2, h2)(self), adding any (E1, h1) with another tag to the result
\* gives the tag-to-entry mapping that add(E1, h1) then add(E2, h2) on
\* self gives, and the reducers over the two mappings return the same for
\* every state and event.
C21_AddOrderIrrelevant ==
  called.op = "add" =>
    \A event \in EventDefinitions, handler \in AddedHandlers :
      event.tag # called.tag =>
        LET thisOrder ==
              AddHandlers(ResultHandlers, event.tag, AddedEntry(handler))
            otherOrder ==
              AddHandlers(AddHandlers(SelfBefore, event.tag,
                                      AddedEntry(handler)),
                          called.tag, AddedEntry(called.handler))
        IN /\ thisOrder = otherOrder
           /\ \A state \in ReducerStates, taggedPayload \in Events :
                EventReducerCall(thisOrder, state, taggedPayload)
                  = EventReducerCall(otherOrder, state, taggedPayload)

\* add(E2, h2) on a builder that add(E1, h1) returned, E1 # E2: the result
\* holds two added entries
C21_Witness ==
  /\ called.op = "add"
  /\ \E other \in DOMAIN SelfBefore :
       /\ other # called.tag
       /\ SelfBefore[other].kind = "added"
       /\ ResultHandlers[other] = SelfBefore[other]
  /\ ResultHandlers[called.tag] = AddedEntry(called.handler)
  /\ Cardinality(DOMAIN ResultHandlers) = 2

----------------------------------------------------------------------------
(* AggregateReducerBuilder: bounds and inputs *)

\* number of builder instances a behaviour may create
MaxReducerBuilders == 4

\* the registrations given to handleEvent: an event definition and a
\* handler (state, eventInstance) => state; EventA is registered with two
\* different handlers
Registrations ==
  { [eventDefinition |-> [tag |-> "EventA"], handler |-> "addPayload"],
    [eventDefinition |-> [tag |-> "EventB"], handler |-> "subPayload"],
    [eventDefinition |-> [tag |-> "EventA"], handler |-> "subPayload"] }

\* the values given to withInitialState
InitialStates == {Num(100), Num(200)}

\* the states a built reducer is called with
CurrentStates == {Undefined, Num(5)}

\* the tags of event instances: EventC has no handler in any builder
InstanceTags == {"EventA", "EventB", "EventC"}

\* the event instances a built reducer is called with: { tag, payload }
EventInstances ==
  {Obj([tag |-> Str(tag), payload |-> payload]) :
     tag \in InstanceTags, payload \in {Num(1), Num(2)}}

----------------------------------------------------------------------------
(* AggregateReducerBuilder: the builder *)

\* variant: this.internalHandlers.push(newHandlerEntry), the receiver's
\* array reused
UpdatedInternalHandlers_Push(heap, internalHandlers, newHandlerEntry) ==
  [heap |-> [heap EXCEPT ![internalHandlers] = Append(@, newHandlerEntry)],
   ref |-> internalHandlers]

\* [...this.internalHandlers, newHandlerEntry]: a new array in the heap of
\* arrays
UpdatedInternalHandlers(heap, internalHandlers, newHandlerEntry) ==
  [heap |-> Append(heap, Append(heap[internalHandlers], newHandlerEntry)),
   ref |-> Len(heap) + 1]

\* makeAggregateReducerBuilder(internalHandlers, initialState): a new
\* instance in the heap of builders, holding the array it is given
makeAggregateReducerBuilder(heap, internalHandlers, initialState) ==
  [heap |-> Append(heap, [internalHandlers |-> internalHandlers,
                          initialState |-> initialState]),
   ref |-> Len(heap) + 1]

\* variant: an initial state once set is kept
NewInitialState_KeepFirst(self, initialStateValue) ==
  IF self.initialState = Undefined
    THEN initialStateValue
    ELSE self.initialState

\* the initial state withInitialState hands to the new instance
NewInitialState(self, initialStateValue) == initialStateValue

\* variant: withInitialState also assigns this.initialState
WithInitialStateOn_Assign(heap, self, initialStateValue) ==
  makeAggregateReducerBuilder(
    [heap EXCEPT ![self].initialState = initialStateValue],
    heap[self].internalHandlers,
    NewInitialState(heap[self], initialStateValue))

\* this.withInitialState(initialStateValue), this being heap[self]
WithInitialStateOn(heap, self, initialStateValue) ==
  makeAggregateReducerBuilder(heap, heap[self].internalHandlers,
                              NewInitialState(heap[self], initialStateValue))

----------------------------------------------------------------------------
(* AggregateReducerBuilder: build and the reducer *)

\* the message of the error build throws
InitialStateRequired ==
  "Initial state must be provided before building the reducer. Call withInitialState()."

\* the message of the error the reducer throws
InitialStateNotApplied ==
  "Internal error: Initial state was not properly applied."

\* variant: build never throws
InitialStateMissing_Unchecked(self) == FALSE

\* this.initialState === undefined
InitialStateMissing(self) == self.initialState = Undefined

\* variant: a tag once set is kept, the first registration wins
HandlerMapOf_FirstWins(internalHandlers) ==
  [tag \in {internalHandlers[i].eventDefinition.tag :
              i \in 1..Len(internalHandlers)} |->
     LET first == CHOOSE i \in 1..Len(internalHandlers) :
                    /\ internalHandlers[i].eventDefinition.tag = tag
                    /\ \A j \in 1..(i - 1) :
                         internalHandlers[j].eventDefinition.tag # tag
     IN internalHandlers[first].handler]

\* the Map filled by handlerMap.set(config.eventDefinition.tag,
\* config.handler) for each config in order: a later set replaces an
\* earlier one
RECURSIVE HandlerMapOf(_)
HandlerMapOf(internalHandlers) ==
  IF internalHandlers = <<>>
    THEN [tag \in {} |-> NoHandler]
    ELSE LET n == Len(internalHandlers)
             config == internalHandlers[n]
             earlier == HandlerMapOf(SubSeq(internalHandlers, 1, n - 1))
         IN [tag \in DOMAIN earlier \cup {config.eventDefinition.tag} |->
               IF tag = config.eventDefinition.tag
                 THEN config.handler
                 ELSE earlier[tag]]

\* no reducer built yet
NoAggregateReducer == [built |-> FALSE]

\* this.build(), this being builders[self] with its array in arrays: the
\* error thrown, or the closure over handlerMap and initState
BuildReducer(arrays, self) ==
  IF InitialStateMissing(self)
    THEN [outcome |-> "Error", message |-> InitialStateRequired]
    ELSE [outcome |-> "ok",
          reducer |-> [built |-> TRUE,
                       handlerMap |-> HandlerMapOf(arrays[self.internalHandlers]),
                       initState |-> self.initialState]]

\* variant: the reducer always starts from the initial state
ResolvedState_Reset(currentState, initState) == initState

\* currentState === undefined ? initState : currentState
ResolvedState(currentState, initState) ==
  IF currentState = Undefined THEN initState ELSE currentState

\* eventInstance.tag
InstanceTag(eventInstance) == GetProp(eventInstance, "tag")

\* variant: an event without a handler goes to the handler of EventA
MapGet_Default(handlerMap, key) ==
  IF key.t = "string" /\ key.s \in DOMAIN handlerMap
    THEN handlerMap[key.s]
    ELSE IF "EventA" \in DOMAIN handlerMap
           THEN handlerMap["EventA"]
           ELSE NoHandler

\* handlerMap.get(key): the value set under a string key, else undefined
MapGet(handlerMap, key) ==
  IF key.t = "string" /\ key.s \in DOMAIN handlerMap
    THEN handlerMap[key.s]
    ELSE NoHandler

\* variant: an event without a handler resets the state
Unhandled_Initial(resolvedState, initState) == initState

\* return resolvedState, when no handler is found
Unhandled(resolvedState, initState) == resolvedState

\* the closure called with (currentState, eventInstance)
AggregateReducerCall(built, currentState, eventInstance) ==
  LET resolvedState == ResolvedState(currentState, built.initState)
      handler == MapGet(built.handlerMap, InstanceTag(eventInstance))
  IN IF resolvedState = Undefined
       THEN [outcome |-> "Error", message |-> InitialStateNotApplied]
       ELSE IF handler # NoHandler
              THEN [outcome |-> "ok",
                    value |-> CallHandler(handler, resolvedState,
                                          eventInstance)]
              ELSE [outcome |-> "ok",
                    value |-> Unhandled(resolvedState, built.initState)]

----------------------------------------------------------------------------
(* State machine of the AggregateReducerBuilder module *)

\* empty(): makeAggregateReducerBuilder([], undefined)
ReducerBuilder_empty ==
  /\ Len(reducerBuilders) < MaxReducerBuilders
  /\ LET created == makeAggregateReducerBuilder(reducerBuilders,
                                                Len(handlerArrays) + 1,
                                                Undefined)
     IN /\ handlerArrays' = Append(handlerArrays, <<>>)
        /\ reducerBuilders' = created.heap
        /\ chains' = Append(chains, <<>>)
        /\ invoked' = [op |-> "empty", outcome |-> "ok",
                       result |-> created.ref]
  /\ UNCHANGED <<aggregateReducer, aggregateVars, builderVars>>

\* handleEvent(eventDefinition, handler)(reducerBuilders[self])
ReducerBuilder_handleEvent(registration, self) ==
  /\ Len(reducerBuilders) < MaxReducerBuilders
  /\ self \in 1..Len(reducerBuilders)
  /\ LET this == reducerBuilders[self]
         updated == UpdatedInternalHandlers(handlerArrays,
                                            this.internalHandlers,
                                            registration)
         created == makeAggregateReducerBuilder(reducerBuilders, updated.ref,
                                                this.initialState)
     IN /\ handlerArrays' = updated.heap
        /\ reducerBuilders' = created.heap
        /\ chains' = Append(chains,
                            Append(chains[self],
                                   [op |-> "handleEvent",
                                    tag |-> registration.eventDefinition.tag,
                                    handler |-> registration.handler]))
        /\ invoked' = [op |-> "handleEvent", outcome |-> "ok",
                       self |-> self, result |-> created.ref]
  /\ UNCHANGED <<aggregateReducer, aggregateVars, builderVars>>

\* withInitialState(initialState)(reducerBuilders[self])
ReducerBuilder_withInitialState(initialState, self) ==
  /\ Len(reducerBuilders) < MaxReducerBuilders
  /\ self \in 1..Len(reducerBuilders)
  /\ LET created == WithInitialStateOn(reducerBuilders, self, initialState)
     IN /\ reducerBuilders' = created.heap
        /\ chains' = Append(chains,
                            Append(chains[self],
                                   [op |-> "withInitialState",
                                    initialState |-> initialState]))
        /\ invoked' = [op |-> "withInitialState", outcome |-> "ok",
                       self |-> self, result |-> created.ref]
  /\ UNCHANGED <<handlerArrays, aggregateReducer, aggregateVars, builderVars>>

\* build()(reducerBuilders[self])
ReducerBuilder_build(self) ==
  /\ self \in 1..Len(reducerBuilders)
  /\ LET returned == BuildReducer(handlerArrays, reducerBuilders[self])
     IN IF returned.outcome = "ok"
          THEN /\ aggregateReducer' = returned.reducer @@ [from |-> self]
               /\ invoked' = [op |-> "build", outcome |-> "ok",
                              self |-> self]
          ELSE /\ invoked' = [op |-> "build", outcome |-> returned.outcome,
                              message |-> returned.message, self |-> self]
               /\ UNCHANGED aggregateReducer
  /\ UNCHANGED <<handlerArrays, reducerBuilders, chains, aggregateVars,
                 builderVars>>

\* the reducer in use called with (currentState, eventInstance)
AggregateReducer(currentState, eventInstance) ==
  /\ aggregateReducer # NoAggregateReducer
  /\ LET returned == AggregateReducerCall(aggregateReducer, currentState,
                                          eventInstance)
     IN invoked' = returned @@ [op |-> "reduce",
                                currentState |-> currentState,
                                eventInstance |-> eventInstance]
  /\ UNCHANGED <<handlerArrays, reducerBuilders, chains, aggregateReducer,
                 aggregateVars, builderVars>>

NextReducerBuilder ==
  \/ ReducerBuilder_empty
  \/ \E registration \in Registrations, self \in 1..MaxReducerBuilders :
       ReducerBuilder_handleEvent(registration, self)
  \/ \E initialState \in InitialStates, self \in 1..MaxReducerBuilders :
       ReducerBuilder_withInitialState(initialState, self)
  \/ \E self \in 1..MaxReducerBuilders : ReducerBuilder_build(self)
  \/ \E currentState \in CurrentStates, eventInstance \in EventInstances :
       AggregateReducer(currentState, eventInstance)

SpecReducerBuilder == Init /\ [][NextReducerBuilder]_vars

ReducerBuilderTypeOK ==
  /\ Len(reducerBuilders) <= MaxReducerBuilders
  /\ Len(chains) = Len(reducerBuilders)
  /\ \A b \in 1..Len(reducerBuilders) :
       reducerBuilders[b].internalHandlers \in 1..Len(handlerArrays)
  /\ aggregateReducer # NoAggregateReducer =>
       aggregateReducer.from \in 1..Len(reducerBuilders)

----------------------------------------------------------------------------
(* Vocabulary of the AggregateReducerBuilder claims *)

\* the value of the last withInitialState call of a chain, undefined when
\* the chain has none
RECURSIVE LastInitialState(_)
LastInitialState(chain) ==
  IF chain = <<>>
    THEN Undefined
    ELSE LET call == chain[Len(chain)]
         IN IF call.op = "withInitialState"
              THEN call.initialState
              ELSE LastInitialState(SubSeq(chain, 1, Len(chain) - 1))

\* the handler the last handleEvent call of a chain gave for a tag,
\* NoHandler when the chain has none for it
RECURSIVE LastHandler(_, _)
LastHandler(chain, tag) ==
  IF chain = <<>>
    THEN NoHandler
    ELSE LET call == chain[Len(chain)]
         IN IF call.op = "handleEvent" /\ call.tag = tag
              THEN call.handler
              ELSE LastHandler(SubSeq(chain, 1, Len(chain) - 1), tag)

\* the registrations of a chain, in the order of its handleEvent calls
RECURSIVE ChainRegistrations(_)
ChainRegistrations(chain) ==
  IF chain = <<>>
    THEN <<>>
    ELSE LET call == chain[Len(chain)]
             earlier == ChainRegistrations(SubSeq(chain, 1, Len(chain) - 1))
         IN IF call.op = "handleEvent"
              THEN Append(earlier, [eventDefinition |-> [tag |-> call.tag],
                                    handler |-> call.handler])
              ELSE earlier

\* the tag of an event instance of the model
InstanceTagOf(eventInstance) == eventInstance.props.tag.s

\* the chain of the builder the reducer in use was built from
ReducerChain == chains[aggregateReducer.from]

\* what one step of a reducer is to return by the chain of its builder:
\* the last handler given for the event's tag applied to the state and the
\* event, the state itself when the chain has no handler for the tag
StepByChain(chain, state, eventInstance) ==
  LET handler == LastHandler(chain, InstanceTagOf(eventInstance))
  IN IF handler = NoHandler
       THEN state
       ELSE CallHandler(handler, state, eventInstance)

\* the state a reducer call starts from by the chain of its builder
SeedByChain(chain, currentState) ==
  IF currentState = Undefined THEN LastInitialState(chain) ELSE currentState

----------------------------------------------------------------------------
(* C22 *)

\* C22: withInitialState is last-write-wins. A reducer called with an
\* undefined state starts from the value of the last withInitialState call
\* in the chain of the builder it was built from, whatever earlier calls
\* supplied and whatever handleEvent calls lie in between.
C22_LastInitialStateWins ==
  (invoked.op = "reduce" /\ invoked.currentState = Undefined) =>
    /\ aggregateReducer.initState = LastInitialState(ReducerChain)
    /\ invoked.outcome = "ok"
    /\ invoked.value = StepByChain(ReducerChain,
                                   LastInitialState(ReducerChain),
                                   invoked.eventInstance)

\* a reducer called with undefined whose builder chain has two
\* withInitialState calls with different values and a handleEvent between
C22_Witness ==
  /\ invoked.op = "reduce"
  /\ invoked.currentState = Undefined
  /\ \E i, j, k \in 1..Len(ReducerChain) :
       /\ i < j /\ j < k
       /\ ReducerChain[i].op = "withInitialState"
       /\ ReducerChain[j].op = "handleEvent"
       /\ ReducerChain[k].op = "withInitialState"
       /\ ReducerChain[i].initialState # ReducerChain[k].initialState
       /\ LastInitialState(ReducerChain) = ReducerChain[k].initialState
       /\ ReducerChain[j].tag = InstanceTagOf(invoked.eventInstance)
  /\ invoked.value = StepByChain(ReducerChain,
                                 LastInitialState(ReducerChain),
                                 invoked.eventInstance)

----------------------------------------------------------------------------
(* C23 *)

\* C23: build throws the error "Initial state must be provided before
\* building the reducer. Call withInitialState()." on a builder whose chain
\* has no withInitialState call, whatever handlers it registered, and
\* returns a reducer on a builder whose last withInitialState call gave a
\* defined value.
C23_BuildNeedsInitialState ==
  invoked.op = "build" =>
    /\ LastInitialState(chains[invoked.self]) = Undefined =>
         /\ invoked.outcome = "Error"
         /\ invoked.message = InitialStateRequired
    /\ LastInitialState(chains[invoked.self]) # Undefined =>
         /\ invoked.outcome = "ok"
         /\ aggregateReducer # NoAggregateReducer
         /\ aggregateReducer.from = invoked.self

\* build throws on a builder with two registrations and no initial state,
\* after a build on another builder has returned a reducer
C23_Witness ==
  /\ invoked.op = "build"
  /\ invoked.outcome = "Error"
  /\ invoked.message = InitialStateRequired
  /\ Len(chains[invoked.self]) = 2
  /\ \A i \in 1..2 : chains[invoked.self][i].op = "handleEvent"
  /\ aggregateReducer # NoAggregateReducer
  /\ aggregateReducer.from # invoked.self

----------------------------------------------------------------------------
(* C24 *)

\* C24: the reducer takes the builder's initial state as the current state
\* when it is called with undefined, and the state it is given when that
\* is defined.
C24_InitialStateOnlyWhenUndefined ==
  invoked.op = "reduce" =>
    LET current == IF invoked.currentState = Undefined
                     THEN aggregateReducer.initState
                     ELSE invoked.currentState
    IN /\ invoked.outcome = "ok"
       /\ invoked.value = StepByChain(ReducerChain, current,
                                      invoked.eventInstance)

\* a call with undefined and an event that has a handler: the result is
\* the handler's for the initial state, and differs from the handler's
\* for the defined state of the model
C24_Witness ==
  /\ invoked.op = "reduce"
  /\ invoked.currentState = Undefined
  /\ LastHandler(ReducerChain, InstanceTagOf(invoked.eventInstance))
       # NoHandler
  /\ invoked.value = StepByChain(ReducerChain, aggregateReducer.initState,
                                 invoked.eventInstance)
  /\ invoked.value # StepByChain(ReducerChain, Num(5), invoked.eventInstance)

----------------------------------------------------------------------------
(* C25 *)

\* C25: for an event whose tag has no handleEvent call in the builder's
\* chain the reducer returns the current state unchanged: the state it was
\* given, or the initial state when it was given undefined.
C25_PassThrough ==
  (invoked.op = "reduce"
     /\ LastHandler(ReducerChain, InstanceTagOf(invoked.eventInstance))
          = NoHandler) =>
    /\ invoked.outcome = "ok"
    /\ invoked.value = SeedByChain(ReducerChain, invoked.currentState)

\* a reducer with a handler called with a defined state and an event of
\* another tag returns that state
C25_Witness ==
  /\ invoked.op = "reduce"
  /\ invoked.currentState # Undefined
  /\ aggregateReducer.handlerMap # [tag \in {} |-> NoHandler]
  /\ InstanceTagOf(invoked.eventInstance)
       \notin DOMAIN aggregateReducer.handlerMap
  /\ invoked.value = invoked.currentState
  /\ invoked.value # aggregateReducer.initState

----------------------------------------------------------------------------
(* C26 *)

\* the sequences of at most MaxEvents event instances
InstanceSeqs == UNION {[1..n -> EventInstances] : n \in 0..MaxEvents}

\* the reducer folded over event instances, as the tests do: each call is
\* given the state the call before returned
RECURSIVE FoldAggregateReducer(_, _, _)
FoldAggregateReducer(built, currentState, eventInstances) ==
  IF eventInstances = <<>>
    THEN currentState
    ELSE FoldAggregateReducer(
           built,
           AggregateReducerCall(built, currentState,
                                Head(eventInstances)).value,
           Tail(eventInstances))

\* the fold as the chain of the builder prescribes it: at each step the
\* handler given for the event's own tag, applied to the state so far and
\* the event instance
RECURSIVE FoldByChain(_, _, _)
FoldByChain(chain, state, eventInstances) ==
  IF eventInstances = <<>>
    THEN state
    ELSE FoldByChain(chain,
                     StepByChain(chain, SeedByChain(chain, state),
                                 Head(eventInstances)),
                     Tail(eventInstances))

\* C26: once build has returned a reducer, folding any sequence of events
\* with it gives, step by step, the result of the handler registered for
\* the event's tag applied to the state so far and the full event
\* instance; the handler of another tag is never the one applied.
C26_FoldDispatchesByTag ==
  (invoked.op = "build" /\ invoked.outcome = "ok") =>
    \A currentState \in CurrentStates, eventInstances \in InstanceSeqs :
      FoldAggregateReducer(aggregateReducer, currentState, eventInstances)
        = FoldByChain(ReducerChain, currentState, eventInstances)

\* a reducer with different handlers for EventA and EventB, and a fold of
\* an EventA followed by an EventB that gives a number the fold in the
\* other order does not give
C26_Witness ==
  /\ invoked.op = "build"
  /\ invoked.outcome = "ok"
  /\ DOMAIN aggregateReducer.handlerMap = {"EventA", "EventB"}
  /\ aggregateReducer.handlerMap["EventA"]
       # aggregateReducer.handlerMap["EventB"]
  /\ \E eventInstances \in InstanceSeqs :
       /\ Len(eventInstances) = 2
       /\ InstanceTagOf(eventInstances[1]) = "EventA"
       /\ InstanceTagOf(eventInstances[2]) = "EventB"
       /\ eventInstances[1].props.payload # eventInstances[2].props.payload
       /\ FoldAggregateReducer(aggregateReducer, Undefined, eventInstances).t
            = "number"
       /\ FoldAggregateReducer(aggregateReducer, Undefined, eventInstances)
            # aggregateReducer.initState

----------------------------------------------------------------------------
(* C27 *)

\* the internalHandlers array of builder b
InternalHandlersOf(b) == handlerArrays[reducerBuilders[b].internalHandlers]

\* C27: handleEvent returns a new builder and leaves the receiver, and
\* every other builder, as it was: each still holds the registrations and
\* the initial state its own chain gave it, the new builder holds the
\* receiver's registrations followed by the new one and the receiver's
\* initial state, and a reducer built from each dispatches accordingly.
C27_HandleEventLeavesReceiver ==
  invoked.op = "handleEvent" =>
    /\ invoked.result # invoked.self
    /\ \A b \in 1..Len(reducerBuilders) :
         /\ InternalHandlersOf(b) = ChainRegistrations(chains[b])
         /\ reducerBuilders[b].initialState = LastInitialState(chains[b])
    /\ \A b \in {invoked.self, invoked.result} :
         ~InitialStateMissing(reducerBuilders[b]) =>
           \A currentState \in CurrentStates,
              eventInstance \in EventInstances :
             AggregateReducerCall(
               BuildReducer(handlerArrays, reducerBuilders[b]).reducer,
               currentState, eventInstance).value
               = StepByChain(chains[b],
                             SeedByChain(chains[b], currentState),
                             eventInstance)
    /\ InternalHandlersOf(invoked.result)
         = Append(InternalHandlersOf(invoked.self),
                  InternalHandlersOf(invoked.result)[
                    Len(InternalHandlersOf(invoked.result))])
    /\ reducerBuilders[invoked.result].initialState
         = reducerBuilders[invoked.self].initialState

\* handleEvent(E, h) on a builder with an initial state and no handler for
\* E: a reducer built from the receiver returns the state for an event
\* tagged E, a reducer built from the result returns another value
C27_Witness ==
  /\ invoked.op = "handleEvent"
  /\ ~InitialStateMissing(reducerBuilders[invoked.self])
  /\ \E eventInstance \in EventInstances :
       /\ LastHandler(chains[invoked.self], InstanceTagOf(eventInstance))
            = NoHandler
       /\ LastHandler(chains[invoked.result], InstanceTagOf(eventInstance))
            # NoHandler
       /\ AggregateReducerCall(
            BuildReducer(handlerArrays,
                         reducerBuilders[invoked.self]).reducer,
            Num(5), eventInstance).value = Num(5)
       /\ AggregateReducerCall(
            BuildReducer(handlerArrays,
                         reducerBuilders[invoked.result]).reducer,
            Num(5), eventInstance).value # Num(5)

----------------------------------------------------------------------------
(* C28 *)

\* C28: withInitialState returns a new builder and leaves the receiver as
\* it was: the receiver still holds the initial state its own chain gave
\* it (none, and build throws, when the chain has no withInitialState),
\* the new builder holds the value supplied and build succeeds on it, and
\* both hold the same registrations.
C28_WithInitialStateLeavesReceiver ==
  invoked.op = "withInitialState" =>
    LET this == reducerBuilders[invoked.self]
        result == reducerBuilders[invoked.result]
        chain == chains[invoked.result]
    IN /\ invoked.result # invoked.self
       /\ this.initialState = LastInitialState(chains[invoked.self])
       /\ LastInitialState(chains[invoked.self]) = Undefined =>
            BuildReducer(handlerArrays, this).outcome = "Error"
       /\ result.initialState = chain[Len(chain)].initialState
       /\ BuildReducer(handlerArrays, result).outcome = "ok"
       /\ InternalHandlersOf(invoked.result) = InternalHandlersOf(invoked.self)
       /\ InternalHandlersOf(invoked.self)
            = ChainRegistrations(chains[invoked.self])

\* withInitialState on a builder with a registration and no initial
\* state: build throws on the receiver and succeeds on the result
C28_Witness ==
  /\ invoked.op = "withInitialState"
  /\ LastInitialState(chains[invoked.self]) = Undefined
  /\ InternalHandlersOf(invoked.self) # <<>>
  /\ BuildReducer(handlerArrays, reducerBuilders[invoked.self]).outcome
       = "Error"
  /\ BuildReducer(handlerArrays, reducerBuilders[invoked.result]).outcome
       = "ok"
  /\ InternalHandlersOf(invoked.result) = InternalHandlersOf(invoked.self)

----------------------------------------------------------------------------
(* Aggregate.addHandler *)

\* the values the module Aggregate.ts exports
AggregateExports == {"empty", "withInitialState", "withHandlers", "build"}

\* typeof Aggregate[name]: empty is a builder object, the other exports are
\* functions, and a name the module does not export is undefined
TypeOfExport(name) ==
  IF name \notin AggregateExports THEN "undefined"
  ELSE IF name = "empty" THEN "object"
  ELSE "function"

\* Aggregate[name](...): the call of a member of the module namespace;
\* calling anything that is not a function throws
CallExport(name) ==
  IF TypeOfExport(name) = "function" THEN "ok" ELSE "TypeError"

\* the handlers given to addHandler:
\* Aggregate.addHandler(Decrement, (state, { payload }) => state - payload)
AddedRegistrations ==
  {[eventDefinition |-> [tag |-> "decrement"], handler |-> "subPayload"]}

\* the registries given to withHandlers before addHandler: those of
\* Registries and the one of the test, which has no handler for decrement
AddHandlerRegistries == Registries \cup {[increment |-> "addPayload"]}

\* pipe(builder, Aggregate.addHandler(eventDefinition, handler)): the
\* module has no addHandler, so the call throws while the arguments of pipe
\* are evaluated and no builder comes out of it; added keeps the last such
\* call and the builder the pipeline had reached
addHandler(eventDefinition, handler) ==
  /\ reducer = NoReducer
  /\ added' = [op |-> "addHandler", tag |-> eventDefinition.tag,
               handler |-> handler, before |-> builder,
               outcome |-> CallExport("addHandler")]
  /\ UNCHANGED <<builder, reducer, objs, arrs, counter, last, origin,
                 missing>>
  /\ UNCHANGED <<builderVars, reducerBuilderVars, pipeVars>>

\* the pipelines of the addHandler test: withInitialState and withHandlers,
\* then addHandler; build and apply on the builder the pipeline holds; the
\* events applied have a handler in some registry and a number as payload
NextAddHandler ==
  \/ \E f \in {"undefined", "zero"} :
       added.op = "none" /\ withInitialState(f)
  \/ \E h \in AddHandlerRegistries : added.op = "none" /\ withHandlers(h)
  \/ \E registration \in AddedRegistrations :
       addHandler(registration.eventDefinition, registration.handler)
  \/ build
  \/ \E id \in Ids : Materialize(id)
  \/ \E tag \in HandledTags, payload \in {Num(1), Num(2)},
        r \in 1..MaxAggregates : apply(tag, payload, r)

SpecAddHandler == Init /\ [][NextAddHandler]_vars

----------------------------------------------------------------------------
(* C29 *)

\* C29: addHandler(eventDefinition, handler)(builder) returns a builder
\* whose registry is the receiver's with the entry tag -> handler merged
\* in, the new entry replacing one for the same tag, and whose supplier is
\* the receiver's; a reducer built from the pipeline dispatches the added
\* tag to the added handler.
C29_AddHandlerMerges ==
  added.op = "addHandler" =>
    /\ added.outcome = "ok"
    /\ DOMAIN builder.handlers
         = DOMAIN added.before.handlers \cup {added.tag}
    /\ builder.handlers[added.tag] = added.handler
    /\ \A tag \in DOMAIN added.before.handlers \ {added.tag} :
         builder.handlers[tag] = added.before.handlers[tag]
    /\ builder.getInitialState = added.before.getInitialState
    /\ (reducer # NoReducer /\ last # NoCall /\ last.tag = added.tag) =>
         /\ last.outcome = "ok"
         /\ Output.state
              = Some(CallHandler(added.handler, last.handlerState,
                                 MakeTaggedPayload(last.tag, last.payload)))

----------------------------------------------------------------------------
(* C30 *)

\* the constructors of the two builders and build on what they return
NextEmpty ==
  \/ Builder_empty
  \/ \E self \in 1..MaxBuilders : Builder_build(self)
  \/ ReducerBuilder_empty
  \/ \E self \in 1..MaxReducerBuilders : ReducerBuilder_build(self)

SpecEmpty == Init /\ [][NextEmpty]_vars

\* C30: an empty builder has no handlers and no initial state. The builder
\* EventHandlersBuilder.empty() returns has a handlers object without
\* entries, which build returns as it is; the builder
\* AggregateReducerBuilder.empty() returns has an empty internalHandlers
\* array and an undefined initial state, so build throws on it.
C30_EmptyBuilders ==
  /\ called.op = "empty" => DOMAIN ResultHandlers = {}
  /\ called.op = "build" => DOMAIN handlerMaps[called.result] = {}
  /\ \A b \in 1..Len(reducerBuilders) :
       chains[b] = <<>> =>
         /\ InternalHandlersOf(b) = <<>>
         /\ reducerBuilders[b].initialState = Undefined
  /\ invoked.op = "build" =>
       /\ invoked.outcome = "Error"
       /\ invoked.message = InitialStateRequired

\* both constructors have been called, and build on each result
C30_Witness ==
  /\ called.op = "build"
  /\ DOMAIN handlerMaps[called.result] = {}
  /\ invoked.op = "build"
  /\ invoked.outcome = "Error"
  /\ chains[invoked.self] = <<>>
  /\ InternalHandlersOf(invoked.self) = <<>>
  /\ reducerBuilders[invoked.self].initialState = Undefined

----------------------------------------------------------------------------
(* C31 .. C34: the aggregate heap as a whole *)

\* the number of applies on the path from a fresh aggregate to o
RECURSIVE AppliedCount(_)
AppliedCount(o) ==
  IF origin[o].parent = 0 THEN 0 ELSE 1 + AppliedCount(origin[o].parent)

\* version minus the number of uncommitted changes of the aggregate at o
VersionOffset(o) == objs[o].version - Len(ChangesOf(objs[o]))

\* C31: every aggregate reached from a fresh aggregate (version 0, no
\* uncommitted changes) by applies has a version equal to the length of its
\* uncommittedChanges and to the number of events applied on the way; each
\* apply keeps version minus that length as it was in its input.
C31_VersionCountsChanges ==
  /\ \A o \in 1..Len(objs) :
       /\ objs[o].version = Len(ChangesOf(objs[o]))
       /\ objs[o].version = AppliedCount(o)
  /\ \A o \in Returned : VersionOffset(o) = VersionOffset(origin[o].parent)
  /\ Applied =>
       Output.version - Len(ChangesOf(Output))
         = last.before.version - Len(last.changesBefore)

\* an aggregate two applies away from a fresh one
C31_Witness ==
  /\ Applied
  /\ AppliedCount(last.output) = 2
  /\ Output.version = 2
  /\ Len(ChangesOf(Output)) = 2
  /\ objs[RootOf(last.output)].version = 0

\* the event an apply appended to make the aggregate at o
LastChange(o) == ChangesOf(objs[o])[Len(ChangesOf(objs[o]))]

\* the values the handler may have been given as state when an apply was
\* called on the aggregate at p: the value of a present state, else what
\* the supplier returned to that call
SeedsOf(p) ==
  IF isSome(objs[p].state)
    THEN {objs[p].state.value}
    ELSE {CallSupplier(reducer.getInitialState, n) : n \in 0..counter}

\* pairs of aggregates that two applies returned for the same snapshot
Writers ==
  {w \in Returned \X Returned :
     w[1] # w[2] /\ origin[w[1]].parent = origin[w[2]].parent}

\* C32: two applies on the same snapshot at version v both return an
\* aggregate at version v + 1 whose uncommittedChanges are those of the
\* snapshot followed by the writer's own event, so the two differ in the
\* last element only; each result is the handler's value for the snapshot
\* and the writer's own event, the snapshot stays as it was, and the second
\* apply ends as the first did: no conflict is raised.
C32_ConcurrentWriters ==
  /\ \A w \in Writers :
       LET snapshot == objs[origin[w[1]].parent]
           mine == objs[w[1]]
           theirs == objs[w[2]]
       IN /\ mine.version = snapshot.version + 1
          /\ theirs.version = snapshot.version + 1
          /\ Len(ChangesOf(mine)) = Len(ChangesOf(theirs))
          /\ \A i \in 1..(Len(ChangesOf(mine)) - 1) :
               /\ ChangesOf(mine)[i] = ChangesOf(theirs)[i]
               /\ ChangesOf(mine)[i] = ChangesOf(snapshot)[i]
          /\ mine.id = snapshot.id
          /\ \E seed \in SeedsOf(origin[w[1]].parent) :
               mine.state
                 = Some(CallHandler(LookupHandler(reducer.handlers,
                                                  TagOf(LastChange(w[1]))),
                                    seed, LastChange(w[1])))
  /\ (last # NoCall /\ \E o \in Returned : /\ origin[o].parent = last.input
                                            /\ o # last.output) =>
       /\ objs[last.input] = last.before
       /\ ChangesOf(objs[last.input]) = last.changesBefore
       /\ last.outcome = "ok"
            <=> LookupHandler(reducer.handlers, last.tag) # NoHandler

\* two applies of different events on one fresh aggregate, with different
\* resulting states
C32_Witness ==
  /\ Applied
  /\ \E w \in Writers :
       /\ w[2] = last.output
       /\ objs[w[1]].version = objs[w[2]].version
       /\ LastChange(w[1]) # LastChange(w[2])
       /\ objs[w[1]].state # objs[w[2]].state
       /\ TagOf(LastChange(w[1])) \in DOMAIN reducer.handlers
       /\ TagOf(LastChange(w[2])) \in DOMAIN reducer.handlers

\* the suppliers that return the same value at every call
PureSuppliers == {f \in SupplierIds :
                    \A n \in 0..MaxCounter : CallSupplier(f, n) = CallSupplier(f, 0)}

\* the aggregate at o as a value: its fields, with the uncommittedChanges
\* read through the heap
SnapshotOf(o) ==
  [id |-> objs[o].id, version |-> objs[o].version, state |-> objs[o].state,
   uncommittedChanges |-> ChangesOf(objs[o])]

\* C33: with a supplier that returns the same value at every call (the
\* handlers of the model are all pure), two applies of the same event to
\* equal aggregates return equal aggregates: the same id, version, state and
\* uncommittedChanges. Equal inputs at one step giving equal outputs, two
\* runs that start from equal aggregates and apply the same events agree at
\* every step.
C33_Deterministic ==
  (reducer # NoReducer /\ reducer.getInitialState \in PureSuppliers) =>
    \A o1 \in Returned, o2 \in Returned :
      (/\ SnapshotOf(origin[o1].parent) = SnapshotOf(origin[o2].parent)
       /\ LastChange(o1) = LastChange(o2))
        => SnapshotOf(o1) = SnapshotOf(o2)

\* the same event applied twice to equal aggregates, at different times:
\* two different objects with equal contents
C33_Witness ==
  /\ reducer # NoReducer
  /\ reducer.getInitialState \in PureSuppliers
  /\ \E o1 \in Returned, o2 \in Returned :
       /\ o1 # o2
       /\ objs[o1].uncommittedChanges # objs[o2].uncommittedChanges
       /\ SnapshotOf(origin[o1].parent) = SnapshotOf(origin[o2].parent)
       /\ LastChange(o1) = LastChange(o2)
       /\ TagOf(LastChange(o1)) \in DOMAIN reducer.handlers
       /\ SnapshotOf(o1) = SnapshotOf(o2)
       /\ objs[o1].state = Some(Num(1))

----------------------------------------------------------------------------
(* C34: the Aggregate builder combinators on builder objects *)

\* the number of Aggregate builder objects made
MaxAggregateBuilders == 4

\* const builder = Object.create(AggregateBuilderProto) and the two
\* assignments to it: a new object in the heap of builders; self is the
\* reference of the combinator's argument
ObjectCreate(heap, self, fields) ==
  [heap |-> Append(heap, fields), ref |-> Len(heap) + 1]

\* withInitialState(getInitialState)(aggregateBuilders[self])
Pipe_withInitialState(getInitialState, self) ==
  /\ self \in 1..Len(aggregateBuilders)
  /\ Len(aggregateBuilders) < MaxAggregateBuilders
  /\ LET made == ObjectCreate(aggregateBuilders, self,
                   withInitialStateOf(getInitialState,
                                      aggregateBuilders[self]))
     IN /\ aggregateBuilders' = made.heap
        /\ piped' = [op |-> "withInitialState", arg |-> getInitialState,
                     self |-> self, result |-> made.ref,
                     before |-> aggregateBuilders]
  /\ UNCHANGED <<builder, reducer, objs, arrs, counter, last, origin,
                 missing, added>>
  /\ UNCHANGED <<builderVars, reducerBuilderVars>>

\* withHandlers(handlers)(aggregateBuilders[self])
Pipe_withHandlers(handlers, self) ==
  /\ self \in 1..Len(aggregateBuilders)
  /\ Len(aggregateBuilders) < MaxAggregateBuilders
  /\ LET made == ObjectCreate(aggregateBuilders, self,
                   withHandlersOf(handlers, aggregateBuilders[self]))
     IN /\ aggregateBuilders' = made.heap
        /\ piped' = [op |-> "withHandlers", arg |-> handlers,
                     self |-> self, result |-> made.ref,
                     before |-> aggregateBuilders]
  /\ UNCHANGED <<builder, reducer, objs, arrs, counter, last, origin,
                 missing, added>>
  /\ UNCHANGED <<builderVars, reducerBuilderVars>>

\* the combinators applied to Aggregate.empty and to what they returned
NextPipe ==
  \/ \E f \in SupplierIds, self \in 1..MaxAggregateBuilders :
       Pipe_withInitialState(f, self)
  \/ \E h \in Registries, self \in 1..MaxAggregateBuilders :
       Pipe_withHandlers(h, self)

SpecPipe == Init /\ [][NextPipe]_vars

\* the builders that existed before the last combinator call are as they
\* were
BuildersKept ==
  \A b \in 1..Len(piped.before) : aggregateBuilders[b] = piped.before[b]

\* C34: each combinator sets one field. withInitialState(f)(b) returns a
\* builder whose supplier is f and whose handlers are b's;
\* withHandlers(h)(b) returns a builder whose handlers are exactly h, with
\* no entry of b's handlers left in, and whose supplier is b's. In both
\* cases the result is a new object and b, like every other builder, is as
\* it was before the call.
C34_CombinatorFrame ==
  /\ piped.op = "withInitialState" =>
       /\ aggregateBuilders[piped.result].getInitialState = piped.arg
       /\ aggregateBuilders[piped.result].handlers
            = piped.before[piped.self].handlers
       /\ piped.result \notin 1..Len(piped.before)
       /\ BuildersKept
  /\ piped.op = "withHandlers" =>
       /\ aggregateBuilders[piped.result].handlers = piped.arg
       /\ aggregateBuilders[piped.result].getInitialState
            = piped.before[piped.self].getInitialState
       /\ piped.result \notin 1..Len(piped.before)
       /\ BuildersKept

\* withHandlers with the empty registry on a builder that has a supplier of
\* its own and two handlers, itself made by withInitialState on a builder
\* with handlers
C34_Witness ==
  /\ piped.op = "withHandlers"
  /\ piped.arg = [k \in {} |-> "addPayload"]
  /\ DOMAIN piped.before[piped.self].handlers = {"increment", "decrement"}
  /\ piped.before[piped.self].getInitialState = "zero"
  /\ aggregateBuilders[piped.result].getInitialState = "zero"
  /\ DOMAIN aggregateBuilders[piped.result].handlers = {}
  /\ aggregateBuilders[piped.self] = piped.before[piped.self]

----------------------------------------------------------------------------
(* C35 *)

\* the positions of the handleEvent calls of a chain for a tag
RegistrationsFor(chain, tag) ==
  {i \in 1..Len(chain) : chain[i].op = "handleEvent" /\ chain[i].tag = tag}

\* C35: when the chain of the reducer's builder has more than one
\* handleEvent call for a tag, the reducer's map holds for that tag the
\* handler of the last of them, and an event with that tag is folded by
\* that handler alone: the value returned is that handler's for the
\* resolved state and the event, with no part of an earlier handler in it.
C35_LastRegistrationDispatched ==
  (aggregateReducer # NoAggregateReducer) =>
    \A tag \in InstanceTags :
      LET calls == RegistrationsFor(ReducerChain, tag)
          latest == CHOOSE i \in calls : \A j \in calls : j <= i
      IN Cardinality(calls) > 1 =>
           /\ tag \in DOMAIN aggregateReducer.handlerMap
           /\ aggregateReducer.handlerMap[tag] = ReducerChain[latest].handler
           /\ (invoked.op = "reduce"
                /\ InstanceTagOf(invoked.eventInstance) = tag) =>
                /\ invoked.outcome = "ok"
                /\ invoked.value
                     = CallHandler(ReducerChain[latest].handler,
                                   SeedByChain(ReducerChain,
                                               invoked.currentState),
                                   invoked.eventInstance)

\* a reducer whose builder registered two different handlers for EventA,
\* called with an EventA: the value is the second handler's and not the
\* first's
C35_Witness ==
  /\ invoked.op = "reduce"
  /\ LET tag == InstanceTagOf(invoked.eventInstance)
         calls == RegistrationsFor(ReducerChain, tag)
         seed == SeedByChain(ReducerChain, invoked.currentState)
     IN /\ Cardinality(calls) = 2
        /\ \E i \in calls, j \in calls :
             /\ i < j
             /\ ReducerChain[i].handler # ReducerChain[j].handler
             /\ invoked.value = CallHandler(ReducerChain[j].handler, seed,
                                            invoked.eventInstance)
             /\ invoked.value # CallHandler(ReducerChain[i].handler, seed,
                                            invoked.eventInstance)

----------------------------------------------------------------------------
(* C36 *)

\* the last call was the event reducer on an event whose tag has no entry
\* in the handlers object the reducer keeps
UnregisteredReduce ==
  /\ called.op = "reduce"
  /\ EventTag(called.event) \notin DOMAIN called.mapsBefore[called.handlers]

\* C36: the reducer of makeEventReducer and of toReducer, called with an
\* event whose tag has no entry in the registry, raises an error and
\* returns no state, whatever the tag; in particular it does not return
\* the state it was given.
C36_UnregisteredTagRaises ==
  UnregisteredReduce =>
    /\ called.outcome # "ok"
    /\ called.value = Undefined
    /\ called.value # called.state

----------------------------------------------------------------------------
(* C37 *)

\* handlers objects a third builder may hold: those of the heap, those
\* fromHandlers makes of the given maps, and those add makes of one handler
\* on the empty builder
ThirdHandlers ==
  {handlerMaps[m] : m \in 1..Len(handlerMaps)}
    \cup {[k \in DOMAIN given |-> DirectEntry(given[k])] :
            given \in GivenHandlers}
    \cup {AddHandlers(EmptyHandlers, event.tag, AddedEntry(handler)) :
            event \in EventDefinitions, handler \in AddedHandlers}

\* C37: combine is associative on the tag-to-handler mapping and the empty
\* builder is neutral on both sides. With the builder a combine call
\* returned taken as combine(b)(a), combining any c into it gives the
\* mapping of combining combine(c)(b) into a; taken as combine(c)(b),
\* combining it into any a gives the mapping of combining c into
\* combine(b)(a). A combine call with an empty builder as argument returns
\* the mapping of the receiver, and one on an empty receiver returns the
\* mapping of the argument.
C37_CombineAssociative ==
  called.op = "combine" =>
    /\ \A c \in ThirdHandlers :
         CombineHandlers(ResultHandlers, c)
           = CombineHandlers(SelfBefore, CombineHandlers(ThatBefore, c))
    /\ \A a \in ThirdHandlers :
         CombineHandlers(a, ResultHandlers)
           = CombineHandlers(CombineHandlers(a, SelfBefore), ThatBefore)
    /\ ThatBefore = EmptyHandlers => ResultHandlers = SelfBefore
    /\ SelfBefore = EmptyHandlers => ResultHandlers = ThatBefore

\* a combine of two builders with different tags, and a third registry
\* whose entry for one of these tags differs from the one combined: the two
\* groupings agree and hold the third registry's entry for that tag
C37_Witness ==
  /\ called.op = "combine"
  /\ DOMAIN SelfBefore # {}
  /\ DOMAIN ThatBefore # {}
  /\ DOMAIN SelfBefore # DOMAIN ThatBefore
  /\ \E c \in ThirdHandlers, tag \in DOMAIN ResultHandlers :
       /\ tag \in DOMAIN c
       /\ c[tag] # ResultHandlers[tag]
       /\ DOMAIN c # DOMAIN ResultHandlers
       /\ CombineHandlers(ResultHandlers, c)[tag] = c[tag]
       /\ CombineHandlers(SelfBefore, CombineHandlers(ThatBefore, c))[tag]
            = c[tag]
       /\ CombineHandlers(c, ResultHandlers)[tag] = ResultHandlers[tag]

----------------------------------------------------------------------------
(* C38 *)

\* the registrations of a builder one of whose handlers returns undefined
FoldRegistrations ==
  { [eventDefinition |-> [tag |-> "EventA"], handler |-> "addPayload"],
    [eventDefinition |-> [tag |-> "EventB"], handler |-> "clear"] }

\* the AggregateReducerBuilder with these registrations
NextFold ==
  \/ ReducerBuilder_empty
  \/ \E registration \in FoldRegistrations, self \in 1..MaxReducerBuilders :
       ReducerBuilder_handleEvent(registration, self)
  \/ \E initialState \in InitialStates, self \in 1..MaxReducerBuilders :
       ReducerBuilder_withInitialState(initialState, self)
  \/ \E self \in 1..MaxReducerBuilders : ReducerBuilder_build(self)
  \/ \E currentState \in CurrentStates, eventInstance \in EventInstances :
       AggregateReducer(currentState, eventInstance)

SpecFold == Init /\ [][NextFold]_vars

\* the reducer in use called with the state its last call returned and one
\* more event
FoldedFurther(eventInstance) ==
  AggregateReducerCall(aggregateReducer, invoked.value, eventInstance)

\* C38: the state a call of the reducer has produced is the state the next
\* event is folded over, whatever that state is, a handler's undefined
\* included: the next call returns what the chain's handler for the next
\* event's tag gives for that state (that state itself without a handler),
\* not what it gives for the initial state.
C38_FoldedStateKept ==
  (invoked.op = "reduce" /\ invoked.outcome = "ok") =>
    \A eventInstance \in EventInstances :
      /\ FoldedFurther(eventInstance).outcome = "ok"
      /\ FoldedFurther(eventInstance).value
           = StepByChain(ReducerChain, invoked.value, eventInstance)

====
